---- MODULE Spec2Model ----
(***************************************************************************)
(* A model of ninja-build-gen (src/source/ninja-build-gen.ts): the escape  *)
(* function, the three child builders (assignation, edge, rule) and the    *)
(* NinjaBuilder that owns them and serialises them to a stream.            *)
(*                                                                         *)
(* A JavaScript string is a sequence of one-character strings, so that     *)
(* concatenation, join and the regular expression of escape are computed   *)
(* character by character.  An optional field (`x?: T`) is the empty       *)
(* sequence when undefined and the one-element sequence <<v>> when set.    *)
(***************************************************************************)
EXTENDS Integers, Sequences, FiniteSets, TLC

\* ------------------------------------------------------------------ bounds
\* Number of API calls (builder methods, serialisations, caller mutations)
\* one behaviour makes, in each of the three specifications.
MaxCalls == 3
MaxRuleCalls == 7
MaxEdgeCalls == 4
\* Longest input string given to escape.
MaxLen == 4

\* ------------------------------------------------------- optional values
None == <<>>
Some(v) == <<v>>
IsSet(o) == o # <<>>
Get(o) == o[1]

\* ------------------------------------------------- string | number values
\* A value of type `string | number`: the number n, or the string s.
Str(s) == [num |-> FALSE, s |-> s, n |-> 0]
Num(n) == [num |-> TRUE, s |-> <<>>, n |-> n]

DigitChars == <<"0", "1", "2", "3", "4", "5", "6", "7", "8", "9">>

\* Number::toString for a non-negative integer.
RECURSIVE NumberToString(_)
NumberToString(n) ==
    IF n < 10 THEN <<DigitChars[n + 1]>>
    ELSE NumberToString(n \div 10) \o <<DigitChars[(n % 10) + 1]>>

\* The text a template literal `${v}` gives for a string | number.
TemplateString(v) == IF v.num THEN NumberToString(v.n) ELSE v.s

\* Array.prototype.join
RECURSIVE Join(_, _)
Join(list, sep) ==
    IF list = <<>> THEN <<>>
    ELSE IF Len(list) = 1 THEN list[1]
    ELSE list[1] \o sep \o Join(Tail(list), sep)

\* ------------------------------------------------------------------ escape
EscapedChars == {" ", ":", "$"}

\* A variant of escape whose character class lacks the dollar sign.
RECURSIVE escapeNoDollar(_)
escapeNoDollar(s) ==
    IF s = <<>> THEN <<>>
    ELSE (IF Head(s) \in {" ", ":"} THEN <<"$", Head(s)>> ELSE <<Head(s)>>)
         \o escapeNoDollar(Tail(s))

\* s.replace(/[ :$]/g, match => '$' + match): a left-to-right scan;
\* every character of the class is replaced by '$' followed by itself.
RECURSIVE escape(_)
escape(s) ==
    IF s = <<>> THEN <<>>
    ELSE (IF Head(s) \in EscapedChars THEN <<"$", Head(s)>> ELSE <<Head(s)>>)
         \o escape(Tail(s))

\* ------------------------------------------------ NinjaAssignBuilder.write
\* `${this.name} = ${this.value}\n`
AssignWrite(a) == << TemplateString(a.name) \o <<" ", "=", " ">> \o TemplateString(a.value) \o <<"\n">> >>

\* ------------------------------------------------------ NinjaRuleBuilder
\* new NinjaRuleBuilder(name): command = '', every other field undefined.
NewRule(name) ==
    [name |-> name, command |-> <<>>, desc |-> None, dependencyFile |-> None,
     doRestat |-> None, isGenerator |-> None, pool |-> None]

\* A variant of RuleWrite that tests the two flags for `!== undefined`
\* instead of truthiness.
RuleWriteFlagDefined(r) ==
    << <<"r", "u", "l", "e", " ">> \o r.name
       \o <<"\n", " ", " ", "c", "o", "m", "m", "a", "n", "d", " ", "=", " ">>
       \o r.command \o <<"\n">> >>
    \o (IF IsSet(r.desc)
        THEN << <<" ", " ", "d", "e", "s", "c", "r", "i", "p", "t", "i", "o", "n", " ", "=", " ">>
                \o Get(r.desc) \o <<"\n">> >>
        ELSE <<>>)
    \o (IF IsSet(r.doRestat)
        THEN << <<" ", " ", "r", "e", "s", "t", "a", "t", " ", "=", " ", "1", "\n">> >>
        ELSE <<>>)
    \o (IF IsSet(r.isGenerator)
        THEN << <<" ", " ", "g", "e", "n", "e", "r", "a", "t", "o", "r", " ", "=", " ", "1", "\n">> >>
        ELSE <<>>)
    \o (IF IsSet(r.pool)
        THEN << <<" ", " ", "p", "o", "o", "l", " ", "=", " ">> \o Get(r.pool) \o <<"\n">> >>
        ELSE <<>>)
    \o (IF IsSet(r.dependencyFile)
        THEN << <<" ", " ", "d", "e", "p", "f", "i", "l", "e", " ", "=", " ">>
                \o Get(r.dependencyFile) \o <<"\n">>,
                <<" ", " ", "d", "e", "p", "s", " ", "=", " ", "g", "c", "c", "\n">> >>
        ELSE <<>>)

\* A variant of RuleWrite that writes the pool line after the depfile lines.
RuleWritePoolLast(r) ==
    << <<"r", "u", "l", "e", " ">> \o r.name
       \o <<"\n", " ", " ", "c", "o", "m", "m", "a", "n", "d", " ", "=", " ">>
       \o r.command \o <<"\n">> >>
    \o (IF IsSet(r.desc)
        THEN << <<" ", " ", "d", "e", "s", "c", "r", "i", "p", "t", "i", "o", "n", " ", "=", " ">>
                \o Get(r.desc) \o <<"\n">> >>
        ELSE <<>>)
    \o (IF IsSet(r.doRestat) /\ Get(r.doRestat)
        THEN << <<" ", " ", "r", "e", "s", "t", "a", "t", " ", "=", " ", "1", "\n">> >>
        ELSE <<>>)
    \o (IF IsSet(r.isGenerator) /\ Get(r.isGenerator)
        THEN << <<" ", " ", "g", "e", "n", "e", "r", "a", "t", "o", "r", " ", "=", " ", "1", "\n">> >>
        ELSE <<>>)
    \o (IF IsSet(r.dependencyFile)
        THEN << <<" ", " ", "d", "e", "p", "f", "i", "l", "e", " ", "=", " ">>
                \o Get(r.dependencyFile) \o <<"\n">>,
                <<" ", " ", "d", "e", "p", "s", " ", "=", " ", "g", "c", "c", "\n">> >>
        ELSE <<>>)
    \o (IF IsSet(r.pool)
        THEN << <<" ", " ", "p", "o", "o", "l", " ", "=", " ">> \o Get(r.pool) \o <<"\n">> >>
        ELSE <<>>)

\* NinjaRuleBuilder.write: the sequence of strings given to stream.write.
RuleWrite(r) ==
    << <<"r", "u", "l", "e", " ">> \o r.name
       \o <<"\n", " ", " ", "c", "o", "m", "m", "a", "n", "d", " ", "=", " ">>
       \o r.command \o <<"\n">> >>
    \o (IF IsSet(r.desc)
        THEN << <<" ", " ", "d", "e", "s", "c", "r", "i", "p", "t", "i", "o", "n", " ", "=", " ">>
                \o Get(r.desc) \o <<"\n">> >>
        ELSE <<>>)
    \o (IF IsSet(r.doRestat) /\ Get(r.doRestat)
        THEN << <<" ", " ", "r", "e", "s", "t", "a", "t", " ", "=", " ", "1", "\n">> >>
        ELSE <<>>)
    \o (IF IsSet(r.isGenerator) /\ Get(r.isGenerator)
        THEN << <<" ", " ", "g", "e", "n", "e", "r", "a", "t", "o", "r", " ", "=", " ", "1", "\n">> >>
        ELSE <<>>)
    \o (IF IsSet(r.pool)
        THEN << <<" ", " ", "p", "o", "o", "l", " ", "=", " ">> \o Get(r.pool) \o <<"\n">> >>
        ELSE <<>>)
    \o (IF IsSet(r.dependencyFile)
        THEN << <<" ", " ", "d", "e", "p", "f", "i", "l", "e", " ", "=", " ">>
                \o Get(r.dependencyFile) \o <<"\n">>,
                <<" ", " ", "d", "e", "p", "s", " ", "=", " ", "g", "c", "c", "\n">> >>
        ELSE <<>>)

\* ------------------------------------------------------ NinjaEdgeBuilder
\* The `assigns` object: its own properties, as [key, value] in creation
\* order.  A property key is the string of the name given.
ProtoKey == <<"_", "_", "p", "r", "o", "t", "o", "_", "_">>

HasKey(obj, key) == \E i \in 1..Len(obj) : obj[i].key = key

\* obj[name] = value on a plain object, for a primitive value: `__proto__`
\* reaches the setter of Object.prototype, which ignores a primitive and
\* creates no property; an existing key keeps its place; a new key is
\* created last.
ObjectSet(obj, name, value) ==
    LET key == TemplateString(name) IN
    IF key = ProtoKey THEN obj
    ELSE IF HasKey(obj, key)
    THEN [i \in 1..Len(obj) |-> IF obj[i].key = key THEN [key |-> key, value |-> value] ELSE obj[i]]
    ELSE Append(obj, [key |-> key, value |-> value])

DigitValue(c) == CHOOSE d \in 0..9 : DigitChars[d + 1] = c

\* Order of two canonical decimal strings by the numbers they denote.
DecimalLess(s, t) ==
    \/ Len(s) < Len(t)
    \/ /\ Len(s) = Len(t)
       /\ \E k \in 1..Len(s) :
            /\ \A j \in 1..(k - 1) : s[j] = t[j]
            /\ DigitValue(s[k]) < DigitValue(t[k])

\* 2^32 - 2, the largest array index.
MaxArrayIndex == <<"4", "2", "9", "4", "9", "6", "7", "2", "9", "4">>

\* An array index: the canonical decimal string of an integer below 2^32 - 1.
IsArrayIndex(key) ==
    /\ Len(key) >= 1
    /\ \A i \in 1..Len(key) : \E d \in 1..10 : DigitChars[d] = key[i]
    /\ Len(key) > 1 => key[1] # "0"
    /\ key = MaxArrayIndex \/ DecimalLess(key, MaxArrayIndex)

\* Object.entries: the array-index keys in ascending numeric order, then the
\* other string keys in creation order.
ObjectEntries(obj) ==
    SortSeq(SelectSeq(obj, LAMBDA p : IsArrayIndex(p.key)),
            LAMBDA p, q : DecimalLess(p.key, q.key))
    \o SelectSeq(obj, LAMBDA p : ~IsArrayIndex(p.key))

\* new NinjaEdgeBuilder(targets): `targets` is the array the edge holds (the
\* caller's own array when one was given); rule = 'phony'.
NewEdge(targets) ==
    [targets |-> targets, assigns |-> <<>>, rule |-> <<"p", "h", "o", "n", "y">>,
     sources |-> None, dependencies |-> None, orderDeps |-> None, pool |-> None]

\* A variant of EdgeWrite that ends the build line only after an override.
EdgeWriteNewlineAfterOverrides(e, items) ==
    << <<"b", "u", "i", "l", "d", " ">> \o Join(items, <<" ">>) \o <<":", " ">> \o e.rule >>
    \o (IF IsSet(e.sources) THEN << <<" ">> \o Join(Get(e.sources), <<" ">>) >> ELSE <<>>)
    \o (IF IsSet(e.dependencies)
        THEN << <<" ", "|", " ">> \o Join(Get(e.dependencies), <<" ">>) >> ELSE <<>>)
    \o (IF IsSet(e.orderDeps)
        THEN << <<" ", "|", "|", " ">> \o Join(Get(e.orderDeps), <<" ">>) >> ELSE <<>>)
    \o [i \in 1..Len(ObjectEntries(e.assigns)) |->
          <<"\n", " ", " ">> \o ObjectEntries(e.assigns)[i].key \o <<" ", "=", " ">>
          \o TemplateString(ObjectEntries(e.assigns)[i].value)]
    \o (IF e.assigns # <<>> THEN << <<"\n">> >> ELSE <<>>)
    \o (IF IsSet(e.pool)
        THEN << <<" ", " ", "p", "o", "o", "l", " ", "=", " ">> \o Get(e.pool) \o <<"\n">> >>
        ELSE <<>>)

\* NinjaEdgeBuilder.write, `items` being the content of the targets array.
EdgeWrite(e, items) ==
    << <<"b", "u", "i", "l", "d", " ">> \o Join(items, <<" ">>) \o <<":", " ">> \o e.rule >>
    \o (IF IsSet(e.sources) THEN << <<" ">> \o Join(Get(e.sources), <<" ">>) >> ELSE <<>>)
    \o (IF IsSet(e.dependencies)
        THEN << <<" ", "|", " ">> \o Join(Get(e.dependencies), <<" ">>) >> ELSE <<>>)
    \o (IF IsSet(e.orderDeps)
        THEN << <<" ", "|", "|", " ">> \o Join(Get(e.orderDeps), <<" ">>) >> ELSE <<>>)
    \o [i \in 1..Len(ObjectEntries(e.assigns)) |->
          <<"\n", " ", " ">> \o ObjectEntries(e.assigns)[i].key \o <<" ", "=", " ">>
          \o TemplateString(ObjectEntries(e.assigns)[i].value)]
    \o << <<"\n">> >>
    \o (IF IsSet(e.pool)
        THEN << <<" ", " ", "p", "o", "o", "l", " ", "=", " ">> \o Get(e.pool) \o <<"\n">> >>
        ELSE <<>>)

\* ------------------------------------------------------------------- state
VARIABLES
    version,      \* NinjaBuilder.version (optional string)
    buildDir,     \* NinjaBuilder.buildDir (optional string)
    edges,        \* NinjaBuilder.edges: sequence of edge builders
    rules,        \* NinjaBuilder.rules: sequence of rule builders
    variables,    \* NinjaBuilder.variables: sequence of assignations
    edgeCount,    \* NinjaBuilder._edgeCount
    ruleCount,    \* NinjaBuilder._ruleCount
    headerValue,  \* NinjaBuilder.headerValue (optional string)
    defaultRule,  \* NinjaBuilder.defaultRule (optional string)
    arrays,       \* the heap of string arrays: [items, caller]; an edge's
                  \* `targets` is an index into it
    sinks,        \* the streams written so far: [writes, file, listeners, ended, closed,
                  \* log], log being what happened to the stream, in order
    callbacks,    \* number of times a callback given to save was invoked
    calls,        \* number of API calls made
    lastCall,     \* the most recent API call: [op, i, name, value, items]
    history,      \* the arguments of the rule(), edge() and assign() calls, in call order
    escIn,        \* the last argument of escape
    escOut        \* the last result of escape

asmVars == <<version, buildDir, edges, rules, variables, edgeCount, ruleCount,
             headerValue, defaultRule>>
ioVars == <<sinks, callbacks>>
escVars == <<escIn, escOut>>
vars == <<version, buildDir, edges, rules, variables, edgeCount, ruleCount,
          headerValue, defaultRule, arrays, sinks, callbacks, calls, lastCall,
          history, escIn, escOut>>

\* ------------------------------------------------------- argument domains
RuleNames == {<<"r">>, <<"c", "c">>}
Commands == {<<>>, <<"g", "o">>}
Descriptions == {<<>>, <<"d">>}
DepFiles == {<<"f">>}
Pools == {<<"p">>}
TargetNames == {<<"a">>}
TargetLists == {<< <<"a">>, <<"b">> >>}
SourceNames == {<<"s">>}
SourceLists == {<<>>, << <<"t">>, <<"u">> >>}
PushedNames == {<<"x">>}
Versions == {<<"1", ".", "3">>}
BuildDirs == {<<"o">>}
Headers == {<<>>, <<"h">>}
DefaultNames == {<<"a">>}
AssignNames == {Str(<<"b">>), Num(2), Num(1), Str(ProtoKey)}
AssignValues == {Str(<<"v">>), Num(42)}
EscapeAlphabet == {" ", ":", "$", "a"}

NoValue == Str(<<>>)
Call(op, i, name, value, items) ==
    [op |-> op, i |-> i, name |-> name, value |-> value, items |-> items]

\* A `string | Array<string>` argument as the caller evaluates it: a string,
\* an array the caller already holds, or a new array literal.  `heap` is the
\* heap once the argument is evaluated.
StringOrArray(names, lists) ==
    {[str |-> TRUE, s |-> n, ref |-> 0, heap |-> arrays] : n \in names}
    \cup {[str |-> FALSE, s |-> <<>>, ref |-> r, heap |-> arrays] :
            r \in {k \in 1..Len(arrays) : arrays[k].caller}}
    \cup {[str |-> FALSE, s |-> <<>>, ref |-> Len(arrays) + 1,
           heap |-> Append(arrays, [items |-> l, caller |-> TRUE])] : l \in lists}

\* The strings an accumulating method pushes for the argument a.
Pushed(a) == IF a.str THEN <<a.s>> ELSE a.heap[a.ref].items

\* ------------------------------------------------------------------- Init
Init ==
    /\ version \in {None} \cup {Some(v) : v \in Versions}
    /\ buildDir \in {None} \cup {Some(d) : d \in BuildDirs}
    /\ edges = <<>>
    /\ rules = <<>>
    /\ variables = <<>>
    /\ edgeCount = 0
    /\ ruleCount = 0
    /\ headerValue = None
    /\ defaultRule = None
    /\ arrays = <<>>
    /\ sinks = <<>>
    /\ callbacks = 0
    /\ calls = 0
    /\ lastCall = Call("new", 0, NoValue, NoValue, <<>>)
    /\ history = [rule |-> <<>>, edge |-> <<>>, assign |-> <<>>]
    /\ escIn = <<>>
    /\ escOut = <<>>

\* What every API call does to the bookkeeping of the model.
Called(c) ==
    /\ calls' = calls + 1
    /\ lastCall' = c
    /\ UNCHANGED escVars

\* --------------------------------------------------- NinjaBuilder methods
header(value) ==
    /\ headerValue' = Some(value)
    /\ Called(Call("header", 0, NoValue, NoValue, <<value>>))
    /\ UNCHANGED <<version, buildDir, edges, rules, variables, edgeCount, ruleCount,
                   defaultRule, arrays, sinks, callbacks, history>>

byDefault(name) ==
    /\ defaultRule' = Some(name)
    /\ Called(Call("byDefault", 0, NoValue, NoValue, <<name>>))
    /\ UNCHANGED <<version, buildDir, edges, rules, variables, edgeCount, ruleCount,
                   headerValue, arrays, sinks, callbacks, history>>

assign(name, value) ==
    /\ variables' = Append(variables, [name |-> name, value |-> value])
    /\ history' = [history EXCEPT !.assign = Append(@, [name |-> name, value |-> value])]
    /\ Called(Call("assign", 0, name, value, <<>>))
    /\ UNCHANGED <<version, buildDir, edges, rules, edgeCount, ruleCount,
                   headerValue, defaultRule, arrays, sinks, callbacks>>

\* A variant of rule() that registers the new rule before the others.
ruleUnshift(name) ==
    /\ rules' = <<NewRule(name)>> \o rules
    /\ ruleCount' = ruleCount + 1
    /\ history' = [history EXCEPT !.rule = Append(@, name)]
    /\ Called(Call("rule", Len(rules) + 1, NoValue, NoValue, <<name>>))
    /\ UNCHANGED <<version, buildDir, edges, variables, edgeCount,
                   headerValue, defaultRule, arrays, sinks, callbacks>>

\* A variant of rule() that does not count the rule.
ruleUncounted(name) ==
    /\ rules' = Append(rules, NewRule(name))
    /\ ruleCount' = ruleCount
    /\ history' = [history EXCEPT !.rule = Append(@, name)]
    /\ Called(Call("rule", Len(rules) + 1, NoValue, NoValue, <<name>>))
    /\ UNCHANGED <<version, buildDir, edges, variables, edgeCount,
                   headerValue, defaultRule, arrays, sinks, callbacks>>

rule(name) ==
    /\ rules' = Append(rules, NewRule(name))
    /\ ruleCount' = ruleCount + 1
    /\ history' = [history EXCEPT !.rule = Append(@, name)]
    /\ Called(Call("rule", Len(rules) + 1, NoValue, NoValue, <<name>>))
    /\ UNCHANGED <<version, buildDir, edges, variables, edgeCount,
                   headerValue, defaultRule, arrays, sinks, callbacks>>

\* edge(targets): a string becomes a new one-element array; an array is
\* held as it is.
edge(t) ==
    /\ arrays' = IF t.str THEN Append(t.heap, [items |-> <<t.s>>, caller |-> FALSE]) ELSE t.heap
    /\ edges' = Append(edges, NewEdge(IF t.str THEN Len(t.heap) + 1 ELSE t.ref))
    /\ edgeCount' = edgeCount + 1
    /\ history' = [history EXCEPT !.edge = Append(@, IF t.str THEN Len(t.heap) + 1 ELSE t.ref)]
    /\ Called(Call("edge", Len(edges) + 1, NoValue, NoValue, Pushed(t)))
    /\ UNCHANGED <<version, buildDir, rules, variables, ruleCount,
                   headerValue, defaultRule, sinks, callbacks>>

\* ------------------------------------------------ NinjaRuleBuilder methods
RuleSet(i, r, c) ==
    /\ rules' = [rules EXCEPT ![i] = r]
    /\ Called(c)
    /\ UNCHANGED <<version, buildDir, edges, variables, edgeCount, ruleCount,
                   headerValue, defaultRule, arrays, sinks, callbacks, history>>

\* A variant of run that adds the command to the one already stored.
runAppending(i, command) ==
    RuleSet(i, [rules[i] EXCEPT !.command = @ \o command],
            Call("run", i, NoValue, NoValue, <<command>>))

run(i, command) ==
    RuleSet(i, [rules[i] EXCEPT !.command = command],
            Call("run", i, NoValue, NoValue, <<command>>))

description(i, desc) ==
    RuleSet(i, [rules[i] EXCEPT !.desc = Some(desc)],
            Call("description", i, NoValue, NoValue, <<desc>>))

depfile(i, file) ==
    RuleSet(i, [rules[i] EXCEPT !.dependencyFile = Some(file)],
            Call("depfile", i, NoValue, NoValue, <<file>>))

restat(i, doRestat) ==
    RuleSet(i, [rules[i] EXCEPT !.doRestat = Some(doRestat)],
            Call("restat", i, NoValue, NoValue, <<doRestat>>))

generator(i, isGenerator) ==
    RuleSet(i, [rules[i] EXCEPT !.isGenerator = Some(isGenerator)],
            Call("generator", i, NoValue, NoValue, <<isGenerator>>))

RulePool(i, pool) ==
    RuleSet(i, [rules[i] EXCEPT !.pool = Some(pool)],
            Call("rule.pool", i, NoValue, NoValue, <<pool>>))

\* ------------------------------------------------ NinjaEdgeBuilder methods
EdgeSet(i, e, heap, c) ==
    /\ edges' = [edges EXCEPT ![i] = e]
    /\ arrays' = heap
    /\ Called(c)
    /\ UNCHANGED <<version, buildDir, rules, variables, edgeCount, ruleCount,
                   headerValue, defaultRule, sinks, callbacks, history>>

using(i, r) ==
    EdgeSet(i, [edges[i] EXCEPT !.rule = r], arrays,
            Call("using", i, NoValue, NoValue, <<r>>))

\* A variant of Accumulate that replaces the accumulator.
AccumulateReplace(acc, items) == Some(items)

\* `this.x ??= []` then push: the accumulator after pushing `items`.
Accumulate(acc, items) == Some((IF IsSet(acc) THEN Get(acc) ELSE <<>>) \o items)

from(i, a) ==
    EdgeSet(i, [edges[i] EXCEPT !.sources = Accumulate(@, Pushed(a))], a.heap,
            Call("from", i, NoValue, NoValue, Pushed(a)))

need(i, a) ==
    EdgeSet(i, [edges[i] EXCEPT !.dependencies = Accumulate(@, Pushed(a))], a.heap,
            Call("need", i, NoValue, NoValue, Pushed(a)))

after(i, a) ==
    EdgeSet(i, [edges[i] EXCEPT !.orderDeps = Accumulate(@, Pushed(a))], a.heap,
            Call("after", i, NoValue, NoValue, Pushed(a)))

EdgeAssign(i, name, value) ==
    EdgeSet(i, [edges[i] EXCEPT !.assigns = ObjectSet(@, name, value)], arrays,
            Call("edge.assign", i, name, value, <<>>))

EdgePool(i, pool) ==
    EdgeSet(i, [edges[i] EXCEPT !.pool = Some(pool)], arrays,
            Call("edge.pool", i, NoValue, NoValue, <<pool>>))

\* The caller adds a string to an array it created.
CallerPush(r, x) ==
    /\ arrays[r].caller
    /\ arrays' = [arrays EXCEPT ![r].items = Append(@, x)]
    /\ Called(Call("caller.push", r, NoValue, NoValue, <<x>>))
    /\ UNCHANGED <<asmVars, sinks, callbacks, history>>

\* ------------------------------------------------------------ serialising
\* The writes of one section: the place in saveToStream that issues them
\* (and, inside a loop, the position of the child) with the string written.
Tagged(sec, idx, texts) ==
    [k \in 1..Len(texts) |-> [sec |-> sec, idx |-> idx, text |-> texts[k]]]

RECURSIVE Flatten(_)
Flatten(ss) == IF ss = <<>> THEN <<>> ELSE Head(ss) \o Flatten(Tail(ss))

SectionHeader ==
    IF IsSet(headerValue)
    THEN Tagged("header", 0, << Get(headerValue) \o <<"\n", "\n">> >>) ELSE <<>>
SectionVersion ==
    IF IsSet(version)
    THEN Tagged("version", 0,
                << <<"n", "i", "n", "j", "a", "_", "r", "e", "q", "u", "i", "r", "e", "d", "_",
                     "v", "e", "r", "s", "i", "o", "n", " ", "=", " ">>
                   \o Get(version) \o <<"\n">> >>)
    ELSE <<>>
SectionBuildDir ==
    IF IsSet(buildDir)
    THEN Tagged("builddir", 0,
                << <<"b", "u", "i", "l", "d", "d", "i", "r", "=">> \o Get(buildDir) \o <<"\n">> >>)
    ELSE <<>>
SectionRules == Flatten([i \in 1..Len(rules) |-> Tagged("rule", i, RuleWrite(rules[i]))])
SectionEdges ==
    Flatten([i \in 1..Len(edges) |->
               Tagged("edge", i, EdgeWrite(edges[i], arrays[edges[i].targets].items))])
SectionVariables ==
    Flatten([i \in 1..Len(variables) |-> Tagged("variable", i, AssignWrite(variables[i]))])
SectionDefault ==
    IF IsSet(defaultRule)
    THEN Tagged("default", 0,
                << <<"d", "e", "f", "a", "u", "l", "t", " ">> \o Get(defaultRule) \o <<"\n">> >>)
    ELSE <<>>

\* A variant of Serialized that writes the bindings before the edges.
SerializedBindingsFirst ==
    SectionHeader \o SectionVersion \o SectionBuildDir \o SectionRules
    \o SectionVariables \o SectionEdges \o SectionDefault

\* The writes saveToStream issues, in order, in the current state.
Serialized ==
    SectionHeader \o SectionVersion \o SectionBuildDir \o SectionRules
    \o SectionEdges \o SectionVariables \o SectionDefault

NewSink(file, writes, listeners, ended, log) ==
    [file |-> file, writes |-> writes, listeners |-> listeners, ended |-> ended,
     closed |-> FALSE, log |-> log]

\* One "write" per string written.
WriteEvents(writes) == [k \in 1..Len(writes) |-> "write"]

\* A variant of saveToStream that empties the list of bindings it has written.
saveToStreamDraining ==
    /\ sinks' = Append(sinks, NewSink(FALSE, Serialized, 0, FALSE, WriteEvents(Serialized)))
    /\ variables' = <<>>
    /\ Called(Call("saveToStream", Len(sinks) + 1, NoValue, NoValue, <<>>))
    /\ UNCHANGED <<version, buildDir, edges, rules, edgeCount, ruleCount,
                   headerValue, defaultRule, arrays, callbacks, history>>

\* saveToStream(stream), on a stream of the caller's: it is written, not ended.
saveToStream ==
    /\ sinks' = Append(sinks, NewSink(FALSE, Serialized, 0, FALSE, WriteEvents(Serialized)))
    /\ Called(Call("saveToStream", Len(sinks) + 1, NoValue, NoValue, <<>>))
    /\ UNCHANGED <<asmVars, arrays, callbacks, history>>

\* A variant of save that ends the file before it registers the callback.
saveEndFirst(withCallback) ==
    /\ sinks' = Append(sinks, NewSink(TRUE, Serialized, IF withCallback THEN 1 ELSE 0, TRUE,
                                      WriteEvents(Serialized) \o <<"end">>
                                      \o (IF withCallback THEN <<"on">> ELSE <<>>)))
    /\ Called(Call("save", Len(sinks) + 1, NoValue, NoValue, <<withCallback>>))
    /\ UNCHANGED <<asmVars, arrays, callbacks, history>>

\* save(path, callback): a new file stream is written, the callback (if any)
\* is registered for 'close', and the stream is ended.
save(withCallback) ==
    /\ sinks' = Append(sinks, NewSink(TRUE, Serialized, IF withCallback THEN 1 ELSE 0, TRUE,
                                      WriteEvents(Serialized)
                                      \o (IF withCallback THEN <<"on">> ELSE <<>>)
                                      \o <<"end">>))
    /\ Called(Call("save", Len(sinks) + 1, NoValue, NoValue, <<withCallback>>))
    /\ UNCHANGED <<asmVars, arrays, callbacks, history>>

\* The file stream emits 'close' once, after it was ended: every listener runs.
FileClose(k) ==
    /\ sinks[k].file /\ sinks[k].ended /\ ~sinks[k].closed
    /\ sinks' = [sinks EXCEPT ![k].closed = TRUE,
                              ![k].log = @ \o <<"close">>
                                           \o [j \in 1..sinks[k].listeners |-> "callback"]]
    /\ callbacks' = callbacks + sinks[k].listeners
    /\ UNCHANGED <<asmVars, arrays, calls, lastCall, history, escVars>>

\* A call of escape(s).
Escape(s) ==
    /\ escIn' = s
    /\ escOut' = escape(s)
    /\ UNCHANGED <<asmVars, arrays, sinks, callbacks, calls, lastCall, history>>

\* --------------------------------------------------------- specifications
Strings(n) == UNION {[1..k -> EscapeAlphabet] : k \in 0..n}

HeaderCall == \E v \in Headers : header(v)
ByDefaultCall == \E n \in DefaultNames : byDefault(n)
AssignCall == \E n \in AssignNames, v \in AssignValues : assign(n, v)
RuleCall == \E n \in RuleNames : rule(n)
EdgeCall == \E t \in StringOrArray(TargetNames, TargetLists) : edge(t)
RunCall == \E i \in 1..Len(rules), c \in Commands : run(i, c)
DescriptionCall == \E i \in 1..Len(rules), d \in Descriptions : description(i, d)
DepfileCall == \E i \in 1..Len(rules), f \in DepFiles : depfile(i, f)
RestatCall == \E i \in 1..Len(rules), b \in BOOLEAN : restat(i, b)
GeneratorCall == \E i \in 1..Len(rules), b \in BOOLEAN : generator(i, b)
RulePoolCall == \E i \in 1..Len(rules), p \in Pools : RulePool(i, p)
UsingCall == \E i \in 1..Len(edges), r \in RuleNames : using(i, r)
FromCall == \E i \in 1..Len(edges), a \in StringOrArray(SourceNames, SourceLists) : from(i, a)
NeedCall == \E i \in 1..Len(edges), a \in StringOrArray(SourceNames, SourceLists) : need(i, a)
AfterCall == \E i \in 1..Len(edges), a \in StringOrArray(SourceNames, SourceLists) : after(i, a)
EdgeAssignCall ==
    \E i \in 1..Len(edges), n \in AssignNames, v \in AssignValues : EdgeAssign(i, n, v)
EdgePoolCall == \E i \in 1..Len(edges), p \in Pools : EdgePool(i, p)
CallerPushCall == \E r \in 1..Len(arrays), x \in PushedNames : CallerPush(r, x)
SaveToStreamCall == saveToStream
SaveCall == \E cb \in BOOLEAN : save(cb)
FileCloseEvent == \E k \in 1..Len(sinks) : FileClose(k)
EscapeCall == \E s \in Strings(MaxLen) : Escape(s)

\* Any use of one NinjaBuilder, MaxCalls calls long.
Next ==
    \/ calls < MaxCalls /\ HeaderCall
    \/ calls < MaxCalls /\ ByDefaultCall
    \/ calls < MaxCalls /\ AssignCall
    \/ calls < MaxCalls /\ RuleCall
    \/ calls < MaxCalls /\ EdgeCall
    \/ calls < MaxCalls /\ RunCall
    \/ calls < MaxCalls /\ DescriptionCall
    \/ calls < MaxCalls /\ DepfileCall
    \/ calls < MaxCalls /\ RestatCall
    \/ calls < MaxCalls /\ GeneratorCall
    \/ calls < MaxCalls /\ RulePoolCall
    \/ calls < MaxCalls /\ UsingCall
    \/ calls < MaxCalls /\ FromCall
    \/ calls < MaxCalls /\ NeedCall
    \/ calls < MaxCalls /\ AfterCall
    \/ calls < MaxCalls /\ EdgeAssignCall
    \/ calls < MaxCalls /\ EdgePoolCall
    \/ calls < MaxCalls /\ CallerPushCall
    \/ calls < MaxCalls /\ SaveToStreamCall
    \/ calls < MaxCalls /\ SaveCall
    \/ FileCloseEvent

Spec == Init /\ [][Next]_vars

\* One rule is declared and configured, MaxRuleCalls calls long.
NextRule ==
    \/ calls < MaxRuleCalls /\ rules = <<>> /\ RuleCall
    \/ calls < MaxRuleCalls /\ RunCall
    \/ calls < MaxRuleCalls /\ DescriptionCall
    \/ calls < MaxRuleCalls /\ DepfileCall
    \/ calls < MaxRuleCalls /\ RestatCall
    \/ calls < MaxRuleCalls /\ GeneratorCall
    \/ calls < MaxRuleCalls /\ RulePoolCall
    \/ calls < MaxRuleCalls /\ SaveToStreamCall

SpecRule == Init /\ [][NextRule]_vars

\* One edge is declared and configured, MaxEdgeCalls calls long.
NextEdge ==
    \/ calls < MaxEdgeCalls /\ edges = <<>> /\ EdgeCall
    \/ calls < MaxEdgeCalls /\ UsingCall
    \/ calls < MaxEdgeCalls /\ FromCall
    \/ calls < MaxEdgeCalls /\ NeedCall
    \/ calls < MaxEdgeCalls /\ AfterCall
    \/ calls < MaxEdgeCalls /\ EdgeAssignCall
    \/ calls < MaxEdgeCalls /\ EdgePoolCall
    \/ calls < MaxEdgeCalls /\ SaveToStreamCall

SpecEdge == Init /\ [][NextEdge]_vars

\* Calls of escape on every string of at most MaxLen characters.
NextEscape == EscapeCall

SpecEscape == Init /\ [][NextEscape]_vars

\* ------------------------------------------------------- helper notions
StartsWith(s, p) == Len(s) >= Len(p) /\ SubSeq(s, 1, Len(p)) = p

SaveOps == {"saveToStream", "save"}

\* The writes of section `sec` within the writes w, in their order.
OfSection(w, sec) == SelectSeq(w, LAMBDA x : x.sec = sec)

\* The number of child blocks section `sec` has within the writes w.
Blocks(w, sec) == Cardinality({w[k].idx : k \in {j \in 1..Len(w) : w[j].sec = sec}})

\* The first write, within w, of the block of child i of section `sec`.
FirstOfBlock(w, sec, i) ==
    w[CHOOSE k \in 1..Len(w) :
        /\ w[k].sec = sec /\ w[k].idx = i
        /\ \A j \in 1..(k - 1) : ~(w[j].sec = sec /\ w[j].idx = i)]

\* ---------------------------------------------------------------- claims

SectionRank(sec) ==
    CASE sec = "header" -> 1 [] sec = "version" -> 2 [] sec = "builddir" -> 3
      [] sec = "rule" -> 4 [] sec = "edge" -> 5 [] sec = "variable" -> 6
      [] sec = "default" -> 7

InSectionOrder(w) ==
    /\ \A i, j \in 1..Len(w) : i < j => SectionRank(w[i].sec) <= SectionRank(w[j].sec)
    /\ OfSection(w, "header") =
         (IF IsSet(headerValue)
          THEN <<[sec |-> "header", idx |-> 0, text |-> Get(headerValue) \o <<"\n", "\n">>]>>
          ELSE <<>>)
    /\ Len(OfSection(w, "version")) = (IF IsSet(version) THEN 1 ELSE 0)
    /\ \A k \in 1..Len(w) : w[k].sec = "version" =>
         /\ StartsWith(w[k].text, <<"n", "i", "n", "j", "a", "_", "r", "e", "q", "u", "i", "r",
                                     "e", "d", "_", "v", "e", "r", "s", "i", "o", "n", " ", "=", " ">>)
         /\ SubSeq(w[k].text, 26, Len(w[k].text)) = Get(version) \o <<"\n">>
    /\ OfSection(w, "builddir") =
         (IF IsSet(buildDir)
          THEN <<[sec |-> "builddir", idx |-> 0,
                  text |-> <<"b", "u", "i", "l", "d", "d", "i", "r", "=">> \o Get(buildDir) \o <<"\n">>]>>
          ELSE <<>>)
    /\ Blocks(w, "rule") = Len(rules)
    /\ Blocks(w, "edge") = Len(edges)
    /\ Blocks(w, "variable") = Len(variables)
    /\ OfSection(w, "default") =
         (IF IsSet(defaultRule)
          THEN <<[sec |-> "default", idx |-> 0,
                  text |-> <<"d", "e", "f", "a", "u", "l", "t", " ">> \o Get(defaultRule) \o <<"\n">>]>>
          ELSE <<>>)
    /\ (/\ ~IsSet(headerValue) /\ ~IsSet(version) /\ ~IsSet(buildDir) /\ ~IsSet(defaultRule)
        /\ rules = <<>> /\ edges = <<>> /\ variables = <<>>) => w = <<>>

\* C1: in every state of the NinjaBuilder, the writes of saveToStream come in
\* the section order header, ninja_required_version, builddir, rules, edges,
\* bindings, default; each optional section is written if and only if its
\* field is set, with its exact text; and nothing set or registered gives no
\* write at all.  It holds of the writes saveToStream would issue and of the
\* stream the last call has just written.
C1_SectionOrder ==
    /\ InSectionOrder(Serialized)
    /\ lastCall.op \in SaveOps => InSectionOrder(sinks[lastCall.i].writes)

\* A stream has just been written with the two constructor sections, a rule
\* and an edge.
C1_Witness ==
    /\ lastCall.op = "saveToStream"
    /\ LET w == sinks[lastCall.i].writes IN
         {w[k].sec : k \in 1..Len(w)} = {"version", "builddir", "rule", "edge"}

KindsInCallOrder(w) ==
    /\ \A j, k \in 1..Len(w) : (j < k /\ w[j].sec = w[k].sec) => w[j].idx <= w[k].idx
    /\ {w[k].idx : k \in {j \in 1..Len(w) : w[j].sec = "rule"}} = 1..Len(history.rule)
    /\ \A i \in 1..Len(history.rule) :
         StartsWith(FirstOfBlock(w, "rule", i).text,
                    <<"r", "u", "l", "e", " ">> \o history.rule[i] \o <<"\n">>)
    /\ {w[k].idx : k \in {j \in 1..Len(w) : w[j].sec = "edge"}} = 1..Len(history.edge)
    /\ \A i \in 1..Len(history.edge) :
         StartsWith(FirstOfBlock(w, "edge", i).text,
                    <<"b", "u", "i", "l", "d", " ">>
                    \o Join(arrays[history.edge[i]].items, <<" ">>) \o <<":", " ">>)
    /\ OfSection(w, "variable") =
         [i \in 1..Len(history.assign) |->
            [sec |-> "variable", idx |-> i,
             text |-> TemplateString(history.assign[i].name) \o <<" ", "=", " ">>
                      \o TemplateString(history.assign[i].value) \o <<"\n">>]]

\* C2: after any interleaving of rule(), edge() and assign() calls, the rule
\* blocks of the output are those of the rule() calls in call order (one per
\* call, duplicate names included), the edge blocks those of the edge() calls
\* in call order and the bindings those of the assign() calls in call order.
C2_CallOrderKept == KindsInCallOrder(Serialized)

\* Two rules of different names were declared around an edge.
C2_Witness ==
    /\ Len(history.rule) = 2 /\ history.rule[1] # history.rule[2]
    /\ Len(history.edge) = 1
    /\ lastCall.op = "rule"

\* Two rules of one name were declared: both are in the output.
C2_WitnessDuplicate ==
    /\ Len(history.rule) = 2 /\ history.rule[1] = history.rule[2]
    /\ Blocks(Serialized, "rule") = 2

\* C3: a saveToStream (or save) call changes no field of the NinjaBuilder, of
\* its rules, edges and bindings or of the arrays they hold, and when the
\* call before it was a saveToStream too, both wrote the same sequence.
C3_SerializationKeepsState ==
    [][(calls' = calls + 1 /\ lastCall'.op \in SaveOps) =>
         /\ asmVars' = asmVars
         /\ arrays' = arrays
         /\ sinks'[lastCall'.i].writes = Serialized
         /\ lastCall.op \in SaveOps =>
              sinks'[lastCall'.i].writes = sinks[lastCall.i].writes]_vars

\* A rule was declared and then written twice in a row.
C3_Witness ==
    /\ lastCall.op = "saveToStream"
    /\ Len(sinks) = 2
    /\ \A k \in 1..2 : ~sinks[k].file /\ Blocks(sinks[k].writes, "rule") = 1

AccumulatorOps == {"from", "need", "after"}
Items(acc) == IF IsSet(acc) THEN Get(acc) ELSE <<>>

\* C4: a from / need / after call on an edge leaves its own accumulator equal
\* to what it held followed by the strings of the argument, in order (a single
\* string being one item), and leaves the two other accumulators, the targets,
\* the rule name, the overrides and the pool of the edge as they were.
C4_AccumulatorsConcatenate ==
    [][(calls' = calls + 1 /\ lastCall'.op \in AccumulatorOps) =>
         LET i == lastCall'.i
             op == lastCall'.op
             old == edges[i]
             new == edges'[i] IN
         /\ Len(edges') = Len(edges)
         /\ new.sources = (IF op = "from" THEN Some(Items(old.sources) \o lastCall'.items)
                           ELSE old.sources)
         /\ new.dependencies = (IF op = "need" THEN Some(Items(old.dependencies) \o lastCall'.items)
                                ELSE old.dependencies)
         /\ new.orderDeps = (IF op = "after" THEN Some(Items(old.orderDeps) \o lastCall'.items)
                             ELSE old.orderDeps)
         /\ new.targets = old.targets
         /\ arrays'[new.targets].items = arrays[old.targets].items
         /\ new.rule = old.rule
         /\ new.assigns = old.assigns
         /\ new.pool = old.pool]_vars

\* from('s') then from(['t', 'u']) were called on an edge that has
\* dependencies too.
C4_Witness ==
    /\ lastCall.op = "from" /\ Len(lastCall.items) = 2
    /\ edges[lastCall.i].sources = Some(<< <<"s">>, <<"t">>, <<"u">> >>)
    /\ IsSet(edges[lastCall.i].dependencies)

\* The edge e with every accumulator that is present but empty made undefined.
WithoutEmptyAccumulators(e) ==
    [e EXCEPT !.sources = IF Items(@) = <<>> THEN None ELSE @,
              !.dependencies = IF Items(@) = <<>> THEN None ELSE @,
              !.orderDeps = IF Items(@) = <<>> THEN None ELSE @]

\* C5: an edge renders its sources, ` | ` and ` || ` clauses if and only if
\* the accumulator is non-empty: an edge whose from, need or after was only
\* called with empty lists renders exactly like an edge on which the method
\* was never called.
C5_EmptyAccumulatorOmitted ==
    \A i \in 1..Len(edges) :
        EdgeWrite(edges[i], arrays[edges[i].targets].items)
          = EdgeWrite(WithoutEmptyAccumulators(edges[i]), arrays[edges[i].targets].items)

\* The override lines of a rendered edge, in output order: the writes that
\* open a new indented line.
OverrideLines(e) ==
    SelectSeq(EdgeWrite(e, <<>>), LAMBDA x : StartsWith(x, <<"\n", " ", " ">>))

OverrideLine(name, value) ==
    <<"\n", " ", " ">> \o TemplateString(name) \o <<" ", "=", " ">> \o TemplateString(value)

IsLineOf(line, name) == StartsWith(line, <<"\n", " ", " ">> \o TemplateString(name) \o <<" ", "=", " ">>)

\* C6: an assign(name, value) call on an edge, the name being a string or a
\* number, replaces the value on the override line of that name where it
\* stands, or, when the name has no line yet, adds its line after all others:
\* so there is one line per distinct name, in order of first assignment, with
\* the value last assigned.
C6_OverridesInFirstAssignOrder ==
    [][(calls' = calls + 1 /\ lastCall'.op = "edge.assign") =>
         LET old == OverrideLines(edges[lastCall'.i])
             new == OverrideLines(edges'[lastCall'.i])
             n == lastCall'.name
             v == lastCall'.value IN
         new = (IF \E k \in 1..Len(old) : IsLineOf(old[k], n)
                THEN [k \in 1..Len(old) |->
                        IF IsLineOf(old[k], n) THEN OverrideLine(n, v) ELSE old[k]]
                ELSE Append(old, OverrideLine(n, v)))]_vars

\* The optional lines of a rule block, by the text each starts with.
LineRank(line) ==
    CASE StartsWith(line, <<" ", " ", "d", "e", "s", "c", "r", "i", "p", "t", "i", "o", "n", " ", "=", " ">>) -> 1
      [] line = <<" ", " ", "r", "e", "s", "t", "a", "t", " ", "=", " ", "1", "\n">> -> 2
      [] line = <<" ", " ", "g", "e", "n", "e", "r", "a", "t", "o", "r", " ", "=", " ", "1", "\n">> -> 3
      [] StartsWith(line, <<" ", " ", "p", "o", "o", "l", " ", "=", " ">>) -> 4
      [] StartsWith(line, <<" ", " ", "d", "e", "p", "f", "i", "l", "e", " ", "=", " ">>) -> 5
      [] line = <<" ", " ", "d", "e", "p", "s", " ", "=", " ", "g", "c", "c", "\n">> -> 6
      [] OTHER -> 0

RuleBlockWellFormed(r) ==
    LET w == RuleWrite(r)
        opt == Tail(w)
        ranks == {LineRank(opt[k]) : k \in 1..Len(opt)} IN
    /\ w[1] = <<"r", "u", "l", "e", " ">> \o r.name
              \o <<"\n", " ", " ", "c", "o", "m", "m", "a", "n", "d", " ", "=", " ">>
              \o r.command \o <<"\n">>
    /\ \A j, k \in 1..Len(opt) : j < k => LineRank(opt[j]) < LineRank(opt[k])
    /\ 0 \notin ranks
    /\ 1 \in ranks <=> IsSet(r.desc)
    /\ 2 \in ranks <=> r.doRestat = Some(TRUE)
    /\ 3 \in ranks <=> r.isGenerator = Some(TRUE)
    /\ 4 \in ranks <=> IsSet(r.pool)
    /\ 5 \in ranks <=> IsSet(r.dependencyFile)
    /\ 6 \in ranks <=> 5 \in ranks
    /\ \A k \in 1..Len(opt) :
         /\ LineRank(opt[k]) = 1 => SubSeq(opt[k], 17, Len(opt[k])) = Get(r.desc) \o <<"\n">>
         /\ LineRank(opt[k]) = 4 => SubSeq(opt[k], 10, Len(opt[k])) = Get(r.pool) \o <<"\n">>
         /\ LineRank(opt[k]) = 5 =>
              /\ SubSeq(opt[k], 13, Len(opt[k])) = Get(r.dependencyFile) \o <<"\n">>
              /\ k < Len(opt) /\ LineRank(opt[k + 1]) = 6

\* C7: a rule renders as `rule <name>` and `  command = <command>` (also for
\* an empty command), then exactly the optional lines whose condition holds,
\* in the order description, restat, generator, pool, depfile, the line
\* `  deps = gcc` being written exactly when the depfile line is, right after it.
C7_RuleBlock == \A i \in 1..Len(rules) : RuleBlockWellFormed(rules[i])

\* A rule with an empty command and all five optional lines has just been
\* written to a stream.
C7_Witness ==
    /\ lastCall.op = "saveToStream"
    /\ Len(rules) = 1 /\ rules[1].command = <<>>
    /\ LET w == OfSection(sinks[lastCall.i].writes, "rule") IN
         /\ Len(w) = 7
         /\ [k \in 1..7 |-> w[k].text] = RuleWrite(rules[1])

\* The rule r as if restat, respectively generator, had never been called.
RestatUnset(r) == [r EXCEPT !.doRestat = None]
GeneratorUnset(r) == [r EXCEPT !.isGenerator = None]

\* C8 as stated: a rule on which restat(false), respectively
\* generator(false), was called renders differently from the same rule on
\* which the method was never called.
C8_FalseDiffersFromUnset ==
    \A i \in 1..Len(rules) :
        /\ rules[i].doRestat = Some(FALSE) => RuleWrite(rules[i]) # RuleWrite(RestatUnset(rules[i]))
        /\ rules[i].isGenerator = Some(FALSE) =>
             RuleWrite(rules[i]) # RuleWrite(GeneratorUnset(rules[i]))

\* C8, amended: a rule on which restat(false), respectively generator(false),
\* was called last renders exactly like the same rule on which the method was
\* never called; only a flag that is true shows, as its `= 1` line.
C8_FalseRendersAsUnset ==
    \A i \in 1..Len(rules) :
        /\ rules[i].doRestat = Some(FALSE) => RuleWrite(rules[i]) = RuleWrite(RestatUnset(rules[i]))
        /\ rules[i].doRestat = Some(TRUE) => RuleWrite(rules[i]) # RuleWrite(RestatUnset(rules[i]))
        /\ rules[i].isGenerator = Some(FALSE) =>
             RuleWrite(rules[i]) = RuleWrite(GeneratorUnset(rules[i]))
        /\ rules[i].isGenerator = Some(TRUE) =>
             RuleWrite(rules[i]) # RuleWrite(GeneratorUnset(rules[i]))

\* restat(false) was just called on a rule whose generator flag is true.
C8_Witness ==
    /\ lastCall.op = "restat"
    /\ rules[lastCall.i].doRestat = Some(FALSE)
    /\ rules[lastCall.i].isGenerator = Some(TRUE)

CountsMatch ==
    /\ ruleCount = Len(history.rule)
    /\ ruleCount = Blocks(Serialized, "rule")
    /\ edgeCount = Len(history.edge)
    /\ edgeCount = Blocks(Serialized, "edge")
    /\ calls = 0 => ruleCount = 0 /\ edgeCount = 0

CountsStep ==
    /\ ruleCount' >= ruleCount
    /\ edgeCount' >= edgeCount
    /\ ruleCount' # ruleCount => lastCall'.op = "rule" /\ ruleCount' = ruleCount + 1
    /\ edgeCount' # edgeCount => lastCall'.op = "edge" /\ edgeCount' = edgeCount + 1

\* C9: ruleCount is the number of rule() calls made and of rule blocks the
\* output has, edgeCount the number of edge() calls made and of edge blocks;
\* both start at 0, never decrease and change only by one, in a rule() call
\* and an edge() call respectively.
C9_Counts == []CountsMatch /\ [][CountsStep]_vars

\* Two rules and an edge were declared.
C9_Witness == ruleCount = 2 /\ edgeCount = 1 /\ Blocks(Serialized, "rule") = 2

\* The number of characters of s[1..i] that escape prefixes.
RECURSIVE EscapedUpTo(_, _)
EscapedUpTo(s, i) ==
    IF i = 0 THEN 0
    ELSE EscapedUpTo(s, i - 1) + (IF s[i] \in {" ", ":", "$"} THEN 1 ELSE 0)

\* The string s with the dollar sign of every `$x` pair removed.
RECURSIVE Unescape(_)
Unescape(s) ==
    IF s = <<>> THEN <<>>
    ELSE IF Head(s) = "$" /\ Len(s) >= 2 THEN <<s[2]>> \o Unescape(SubSeq(s, 3, Len(s)))
    ELSE <<Head(s)>> \o Unescape(Tail(s))

\* C10: escape(s) is s with one dollar sign inserted right before each space,
\* colon and dollar sign: character i of s stands at place i + (number of such
\* characters among the first i), preceded by `$` exactly when it is one of
\* them; the length is that of s plus their number; and removing the inserted
\* dollar signs gives s back.
C10_Escape ==
    /\ Len(escOut) = Len(escIn) + EscapedUpTo(escIn, Len(escIn))
    /\ \A i \in 1..Len(escIn) :
         LET p == i + EscapedUpTo(escIn, i) IN
         /\ escOut[p] = escIn[i]
         /\ escIn[i] \in {" ", ":", "$"} => escOut[p - 1] = "$"
    /\ Unescape(escOut) = escIn

\* escape was called on a string with a space, a colon, a dollar sign and
\* another character.
C10_Witness ==
    /\ {escIn[i] : i \in 1..Len(escIn)} = {" ", ":", "$", "a"}
    /\ Len(escOut) = 7

\* The places of the event ev in the log L.
Places(L, ev) == {j \in 1..Len(L) : L[j] = ev}

RECURSIVE CallbacksOf(_)
CallbacksOf(ss) ==
    IF ss = <<>> THEN 0
    ELSE Cardinality(Places(Head(ss).log, "callback")) + CallbacksOf(Tail(ss))

StreamsInOrder ==
    /\ \A k \in 1..Len(sinks) :
         LET s == sinks[k]
             L == s.log IN
         /\ Cardinality(Places(L, "write")) = Len(s.writes)
         /\ s.file =>
              /\ s.ended /\ Cardinality(Places(L, "end")) = 1
              /\ \A j \in Places(L, "write") \cup Places(L, "on"), e \in Places(L, "end") : j < e
              /\ Cardinality(Places(L, "on")) = s.listeners
              /\ Cardinality(Places(L, "close")) = (IF s.closed THEN 1 ELSE 0)
              /\ \A c \in Places(L, "close"), e \in Places(L, "end") : e < c
              /\ \A j \in Places(L, "callback") : \E c \in Places(L, "close") : c < j
              /\ Cardinality(Places(L, "callback")) = s.listeners * Cardinality(Places(L, "close"))
         /\ ~s.file =>
              /\ ~s.ended /\ ~s.closed
              /\ Places(L, "end") = {} /\ Places(L, "close") = {} /\ Places(L, "callback") = {}
    /\ callbacks = CallbacksOf(sinks)

SaveStep ==
    /\ (calls' = calls + 1 /\ lastCall'.op = "save") =>
         LET s == sinks'[lastCall'.i] IN
         /\ Len(sinks') = Len(sinks) + 1 /\ lastCall'.i = Len(sinks')
         /\ s.file /\ s.writes = Serialized
         /\ s.listeners = (IF lastCall'.items[1] THEN 1 ELSE 0)
         /\ callbacks' = callbacks
    /\ (calls' = calls + 1 /\ lastCall'.op = "saveToStream") =>
         /\ ~sinks'[lastCall'.i].file /\ ~sinks'[lastCall'.i].ended
         /\ callbacks' = callbacks

\* C11: save writes to the file everything serialisation produces, in
\* serialisation order, before it ends the file, and ends it once; a callback
\* is registered before the end, runs only after the file has closed, once per
\* close; without a callback nothing runs; saveToStream never ends its stream.
C11_SaveOrder == []StreamsInOrder /\ [][SaveStep]_vars

\* A binding was saved with a callback, the file has closed and the callback
\* has run.
C11_Witness ==
    \E k \in 1..Len(sinks) :
        /\ sinks[k].file /\ sinks[k].closed /\ sinks[k].listeners = 1
        /\ Blocks(sinks[k].writes, "variable") = 1
        /\ callbacks = 1

\* The optional lines of kind k (see LineRank) of a rendered rule.
RuleLines(r, k) == SelectSeq(Tail(RuleWrite(r)), LAMBDA x : LineRank(x) = k)

\* The rule name a rendered edge shows: what follows `build <targets>: `.
EdgeRuleText(e, items) ==
    LET first == EdgeWrite(e, items)[1] IN
    SubSeq(first, Len(<<"b", "u", "i", "l", "d", " ">> \o Join(items, <<" ">>) \o <<":", " ">>) + 1,
           Len(first))

\* The pool lines of a rendered edge.
EdgePoolLines(e) ==
    SelectSeq(EdgeWrite(e, <<>>),
              LAMBDA x : StartsWith(x, <<" ", " ", "p", "o", "o", "l", " ", "=", " ">>))

Texts(w) == [k \in 1..Len(w) |-> w[k].text]

\* The setter of each kind of optional rule line.
SetterOfRank(k) ==
    CASE k = 1 -> "description" [] k = 2 -> "restat" [] k = 3 -> "generator"
      [] k = 4 -> "rule.pool" [] k = 5 -> "depfile" [] k = 6 -> "depfile"

\* What the setter call c, just made, must show in the output.
SetterShown(c) ==
    LET i == c.i
        a == c.items[1] IN
    /\ c.op = "run" =>
         RuleWrite(rules'[i])[1] =
           <<"r", "u", "l", "e", " ">> \o rules[i].name
           \o <<"\n", " ", " ", "c", "o", "m", "m", "a", "n", "d", " ", "=", " ">> \o a \o <<"\n">>
    /\ c.op = "description" =>
         RuleLines(rules'[i], 1) =
           << <<" ", " ", "d", "e", "s", "c", "r", "i", "p", "t", "i", "o", "n", " ", "=", " ">>
              \o a \o <<"\n">> >>
    /\ c.op = "restat" => Len(RuleLines(rules'[i], 2)) = (IF a THEN 1 ELSE 0)
    /\ c.op = "generator" => Len(RuleLines(rules'[i], 3)) = (IF a THEN 1 ELSE 0)
    /\ c.op = "rule.pool" =>
         RuleLines(rules'[i], 4) =
           << <<" ", " ", "p", "o", "o", "l", " ", "=", " ">> \o a \o <<"\n">> >>
    /\ c.op = "depfile" =>
         RuleLines(rules'[i], 5) =
           << <<" ", " ", "d", "e", "p", "f", "i", "l", "e", " ", "=", " ">> \o a \o <<"\n">> >>
    /\ c.op = "using" => EdgeRuleText(edges'[i], arrays'[edges'[i].targets].items) = a
    /\ c.op = "edge.pool" =>
         EdgePoolLines(edges'[i]) =
           << <<" ", " ", "p", "o", "o", "l", " ", "=", " ">> \o a \o <<"\n">> >>
    /\ c.op = "header" => Texts(SectionHeader') = << a \o <<"\n", "\n">> >>
    /\ c.op = "byDefault" =>
         Texts(SectionDefault') =
           << <<"d", "e", "f", "a", "u", "l", "t", " ">> \o a \o <<"\n">> >>
    /\ c.op = "rule" =>
         RuleWrite(rules'[i])[1] =
           <<"r", "u", "l", "e", " ">> \o a
           \o <<"\n", " ", " ", "c", "o", "m", "m", "a", "n", "d", " ", "=", " ", "\n">>
    /\ c.op = "edge" =>
         EdgeRuleText(edges'[i], arrays'[edges'[i].targets].items) = <<"p", "h", "o", "n", "y">>

\* What a step that is not the call of a setter leaves as it was.
OnlySetterChanges ==
    LET isCall == calls' = calls + 1
        c == lastCall' IN
    /\ \A j \in 1..Len(rules) :
         \/ rules'[j] = rules[j]
         \/ /\ ~(isCall /\ c.op = "run" /\ c.i = j) =>
                 RuleWrite(rules'[j])[1] = RuleWrite(rules[j])[1]
            /\ \A k \in 1..6 :
                 ~(isCall /\ c.op = SetterOfRank(k) /\ c.i = j) =>
                   RuleLines(rules'[j], k) = RuleLines(rules[j], k)
    /\ \A j \in 1..Len(edges) :
         /\ ~(isCall /\ c.op = "using" /\ c.i = j) =>
              \/ edges'[j] = edges[j] /\ arrays' = arrays
              \/ EdgeRuleText(edges'[j], arrays'[edges'[j].targets].items)
                   = EdgeRuleText(edges[j], arrays[edges[j].targets].items)
         /\ ~(isCall /\ c.op = "edge.pool" /\ c.i = j) =>
              \/ edges'[j] = edges[j]
              \/ EdgePoolLines(edges'[j]) = EdgePoolLines(edges[j])
    /\ ~(isCall /\ c.op = "header") =>
         SectionHeader' = SectionHeader
    /\ ~(isCall /\ c.op = "byDefault") =>
         SectionDefault' = SectionDefault

\* C12: every single-valued setter is last-call-wins: right after a call of
\* run, description, depfile, pool, restat or generator on a rule, of using or
\* pool on an edge, of header or byDefault, the output shows the argument of
\* that call and nothing of an earlier one, and it shows it until the next
\* call of the same setter on the same object; a new rule shows an empty
\* command and a new edge the rule name `phony`.
C12_LastCallWins ==
    [][/\ calls' = calls + 1 => SetterShown(lastCall')
       /\ OnlySetterChanges]_vars

\* header('') was called, the output written, and header('h') called: the
\* output now shows `h`.
C12_Witness ==
    /\ lastCall.op = "header"
    /\ Len(sinks) = 1
    /\ Texts(OfSection(sinks[1].writes, "header")) = << <<"\n", "\n">> >>
    /\ Texts(OfSection(Serialized, "header")) = << <<"h", "\n", "\n">> >>

EdgeShape(e, items) ==
    LET w == EdgeWrite(e, items)
        text == Flatten(w)
        newlines == {k \in 1..Len(w) : w[k] = <<"\n">>}
        overrides == {k \in 1..Len(w) : StartsWith(w[k], <<"\n", " ", " ">>)} IN
    /\ Cardinality(newlines) = 1
    /\ LET n == CHOOSE k \in newlines : TRUE IN
         /\ w[1] = <<"b", "u", "i", "l", "d", " ">> \o Join(items, <<" ">>) \o <<":", " ">> \o e.rule
         /\ overrides = (n - Len(e.assigns))..(n - 1)
         /\ \A k \in 1..Len(e.assigns) :
              \E j \in overrides : w[j] = <<"\n", " ", " ">> \o e.assigns[k].key \o <<" ", "=", " ">>
                                          \o TemplateString(e.assigns[k].value)
         /\ \A k \in 2..(n - Len(e.assigns) - 1) : StartsWith(w[k], <<" ">>)
         /\ Len(w) = n + (IF IsSet(e.pool) THEN 1 ELSE 0)
         /\ IsSet(e.pool) =>
              w[Len(w)] = <<" ", " ", "p", "o", "o", "l", " ", "=", " ">> \o Get(e.pool) \o <<"\n">>
    /\ text[Len(text)] = "\n"

\* C13: an edge renders as the `build <targets>: <rule>` write and its input
\* clauses, then one `\n  <key> = <value>` per override, then exactly one
\* newline (also without overrides), then `  pool = <pool>` and a newline if
\* and only if pool was called, after all override lines; the text always ends
\* with a newline.
C13_EdgeBlock ==
    \A i \in 1..Len(edges) : EdgeShape(edges[i], arrays[edges[i].targets].items)

\* An edge with one override and a pool has just been written to a stream.
C13_Witness ==
    /\ lastCall.op = "saveToStream"
    /\ Len(edges) = 1 /\ Len(edges[1].assigns) = 1 /\ IsSet(edges[1].pool)
    /\ Texts(OfSection(sinks[lastCall.i].writes, "edge"))
         = EdgeWrite(edges[1], arrays[edges[1].targets].items)
    /\ Len(OfSection(sinks[lastCall.i].writes, "edge")) = 4

\* The targets a rendered edge shows: what stands between `build ` and
\* `: <rule>` in its first write.
RenderedTargets(e, items) ==
    LET first == EdgeWrite(e, items)[1] IN
    SubSeq(first, 7, Len(first) - Len(e.rule) - 2)

\* C14: the targets an edge renders are the names given to edge(), in order,
\* as they were at the call; no later step changes them, be it a builder
\* method or the caller changing the list it gave to edge(); and the caller
\* changing a list it gave to edge(), from, need or after changes nothing of
\* what an edge renders.
C14_TargetsFixed ==
    [][/\ (calls' = calls + 1 /\ lastCall'.op = "edge") =>
            RenderedTargets(edges'[lastCall'.i], arrays'[edges'[lastCall'.i].targets].items)
              = Join(lastCall'.items, <<" ">>)
       /\ \A i \in 1..Len(edges) :
            RenderedTargets(edges'[i], arrays'[edges'[i].targets].items)
              = RenderedTargets(edges[i], arrays[edges[i].targets].items)
       /\ (calls' = calls + 1 /\ lastCall'.op = "caller.push") =>
            \A i \in 1..Len(edges) :
                EdgeWrite(edges'[i], arrays'[edges'[i].targets].items)
                  = EdgeWrite(edges[i], arrays[edges[i].targets].items)]_vars

====
